---- MODULE Spec2Model ----
(***************************************************************************)
(* A model of the calendar engine of JARVIS, modules/calendar_module.py:   *)
(* the event collection CalendarModule.events, its JSON backing file, and  *)
(* create_event / update_event / delete_event with the _save_events call   *)
(* each of them ends with.                                                 *)
(*                                                                         *)
(* Spec     one caller; every action is one whole call of a method, and    *)
(*          every save succeeds.                                           *)
(* FailSpec the same caller, with saves that may fail.                     *)
(* ConcSpec two request threads on one CalendarModule; every action is one *)
(*          step of a method, so calls interleave as threads of the web    *)
(*          server do.                                                     *)
(*                                                                         *)
(* RoundSpec a collection is saved and loaded by a new CalendarModule.      *)
(* UpdSpec  one caller whose updates supply id and created_at.             *)
(* QuerySpec get_event_conflicts and get_free_time_slots on a stored       *)
(*          collection.                                                    *)
(* GridSpec get_calendar_matrix on a stored collection.                    *)
(* LoadSpec a CalendarModule is constructed over a file that does not load. *)
(* AttrSpec one caller whose updates supply keys that are no fields.       *)
(* AliasSpec the caller writes to the records that get_event returned.     *)
(* ReminderSpec a caller polls get_events_needing_reminders every minute.   *)
(* ListenSpec  continuous listening is started and stopped, workers loop.  *)
(*                                                                         *)
(* A datetime is a number of minutes since midnight of day 0 (naive local  *)
(* time, as the code stores it); a date is a number of days since day 0,   *)
(* which is 1 January 2023.                                                *)
(***************************************************************************)
EXTENDS Integers, Sequences, FiniteSets, TLC

VARIABLES
    events,   \* CalendarModule.events: the in-memory list of CalendarEvent
    file,     \* the backing file data_file
    last,     \* what the last call of the single caller was and returned
    pc,       \* ConcSpec: where each thread is in its call
    loc,      \* ConcSpec: each thread's locals
    stt       \* the SpeechToTextModule and the worker threads it started

vars == <<events, file, last, pc, loc, stt>>

----------------------------------------------------------------------------
(* Bounds and input sets *)

\* The longest list create_event is allowed to build.
MaxEvents == 2

\* How many polls of get_events_needing_reminders a caller makes in a run.
MaxPolls == 3

\* How many worker threads start_continuous_listening starts in a run.
MaxWorkers == 3

\* What uuid4()[:8] can return: two of the 16^8 strings.
Ids == {"0f3a9c1e", "7b2d4e60"}

\* Titles a caller passes; the empty title is one of them.
Titles == {"", "Standup"}

\* Datetimes a caller passes: day 0 at 10:00 and 11:00.
Times == {600, 660}

\* The values datetime.now() takes while an event is constructed.
NowValues == {540}

----------------------------------------------------------------------------
(* CalendarEvent and its JSON form *)

\* A wrong isoformat, date().isoformat(): the time of day is lost.
IsoFormatDateOnly(t) ==
    [date |-> t \div (24 * 60), hour |-> 0, minute |-> 0]

\* datetime.isoformat(): 'YYYY-MM-DDTHH:MM:SS', here its date, hour and minute.
IsoFormat(t) ==
    [date |-> t \div (24 * 60), hour |-> (t % (24 * 60)) \div 60, minute |-> t % 60]

\* A wrong fromisoformat: the minutes of the text are not read.
FromIsoFormatToHour(s) ==
    s.date * (24 * 60) + s.hour * 60

\* datetime.fromisoformat()
FromIsoFormat(s) ==
    s.date * (24 * 60) + s.hour * 60 + s.minute

\* CalendarEvent(...) as create_event constructs it, with the dataclass defaults.
NewEvent(id, title, start_time, end_time, now) ==
    [id |-> id, title |-> title, description |-> "",
     start_time |-> start_time, end_time |-> end_time,
     location |-> "", attendees |-> <<>>, reminder_minutes |-> 15,
     is_all_day |-> FALSE, recurrence |-> "none", created_at |-> now]

\* CalendarEvent.to_dict
ToDict(e) ==
    [e EXCEPT !.start_time = IsoFormat(@), !.end_time = IsoFormat(@),
              !.created_at = IsoFormat(@)]

\* CalendarEvent.from_dict
FromDict(d) ==
    [d EXCEPT !.start_time = FromIsoFormat(@), !.end_time = FromIsoFormat(@),
              !.created_at = FromIsoFormat(@)]

----------------------------------------------------------------------------
(* The backing file *)

\* The file is absent, holds a complete JSON list, or holds an empty or cut-off text.
AbsentFile == [kind |-> "absent", data |-> <<>>]

PartialFile == [kind |-> "partial", data |-> <<>>]

JsonFile(data) == [kind |-> "json", data |-> data]

\* events_data = [event.to_dict() for event in self.events]
EventsData(evs) == [i \in 1..Len(evs) |-> ToDict(evs[i])]

\* How one _save_events call can end: the dump is written; open() raises and the
\* file is as it was; json.dump raises after open(..., 'w') has truncated the file.
SaveOutcomes == {"ok", "open_failed", "write_failed"}

\* An event whose method to_dict is hidden by an instance attribute of that
\* name, which setattr(event, "to_dict", value) has put there: event.to_dict()
\* then raises TypeError.
Shadowed(e) == "to_dict" \in DOMAIN e

\* _save_events on the list evs: the file it leaves. Every exception is caught and
\* logged, nothing is returned or re-raised. event.to_dict() is called for all
\* events before the file is opened.
SaveEvents(evs, f, outcome) ==
    IF \E i \in 1..Len(evs) : Shadowed(evs[i]) THEN f
    ELSE CASE outcome = "ok" -> JsonFile(EventsData(evs))
           [] outcome = "open_failed" -> f
           [] outcome = "write_failed" -> PartialFile

\* The keys from_dict reads (data['start_time'], data['end_time'],
\* data['created_at']) and the fields CalendarEvent(**data) has no default for.
RequiredKeys == {"id", "title", "description", "start_time", "end_time", "created_at"}

\* from_dict(d) returns an event: d has the keys it needs. Without one of them
\* it raises KeyError or TypeError.
Parses(d) == RequiredKeys \subseteq DOMAIN d

\* A wrong _load_events: a record that does not parse is skipped, the others
\* are loaded.
LoadEventsSkipping(f) ==
    IF f.kind = "json"
    THEN LET good == SelectSeq(f.data, Parses)
         IN [i \in 1..Len(good) |-> FromDict(good[i])]
    ELSE <<>>

\* _load_events: the list a CalendarModule constructed over file f starts with.
\* One try block holds json.load and the from_dict of all records: whatever is
\* raised in it leaves self.events = [].
LoadEvents(f) ==
    IF f.kind = "json" /\ \A i \in 1..Len(f.data) : Parses(f.data[i])
    THEN [i \in 1..Len(f.data) |-> FromDict(f.data[i])]
    ELSE <<>>

----------------------------------------------------------------------------
(* The methods *)

\* A wrong get_event: the loop variable is returned after the loop, so a search
\* that finds nothing returns the last event of the list.
GetEventOrLast(evs, event_id) ==
    IF \E i \in 1..Len(evs) : evs[i].id = event_id
    THEN CHOOSE i \in 1..Len(evs) :
            /\ evs[i].id = event_id
            /\ \A j \in 1..(i - 1) : evs[j].id # event_id
    ELSE Len(evs)

\* get_event: the position of the first event with this id, 0 for None.
GetEvent(evs, event_id) ==
    IF \E i \in 1..Len(evs) : evs[i].id = event_id
    THEN CHOOSE i \in 1..Len(evs) :
            /\ evs[i].id = event_id
            /\ \A j \in 1..(i - 1) : evs[j].id # event_id
    ELSE 0

\* An optional keyword argument: the empty set when not supplied.
Opt(S) == {{}} \cup {{x} : x \in S}

Supplied(v) == CHOOSE x \in v : TRUE

\* The **kwargs a caller of update_event passes: any of id, title, start_time
\* and end_time. created_at is a field of the event too, color is not.
Kwargs == [id : Opt(Ids), title : Opt(Titles),
           start_time : Opt(Times), end_time : Opt(Times),
           created_at : {{}}, color : {{}}, to_dict : {{}}]

\* A wrong update_event loop: a supplied end_time is not set.
ApplyKwargsButEnd(e, kw) ==
    [e EXCEPT !.id = IF kw.id = {} THEN @ ELSE Supplied(kw.id),
              !.title = IF kw.title = {} THEN @ ELSE Supplied(kw.title),
              !.start_time = IF kw.start_time = {} THEN @ ELSE Supplied(kw.start_time),
              !.created_at = IF kw.created_at = {} THEN @ ELSE Supplied(kw.created_at)]

\* update_event's loop: setattr for every supplied key the event has
\* (hasattr(event, key)); a key that is no attribute of the event (color) is
\* skipped. The methods of CalendarEvent are attributes too: for the key
\* to_dict hasattr is true, and setattr gives the event an attribute to_dict.
ApplyKwargs(e, kw) ==
    LET fields ==
            [e EXCEPT !.id = IF kw.id = {} THEN @ ELSE Supplied(kw.id),
                      !.title = IF kw.title = {} THEN @ ELSE Supplied(kw.title),
                      !.start_time = IF kw.start_time = {} THEN @
                                     ELSE Supplied(kw.start_time),
                      !.end_time = IF kw.end_time = {} THEN @ ELSE Supplied(kw.end_time),
                      !.created_at = IF kw.created_at = {} THEN @
                                     ELSE Supplied(kw.created_at)]
    IN IF kw.to_dict = {} THEN fields
       ELSE ("to_dict" :> Supplied(kw.to_dict)) @@ fields

\* list.pop(i)
Pop(evs, i) == [j \in 1..(Len(evs) - 1) |-> IF j < i THEN evs[j] ELSE evs[j + 1]]

\* SpeechToTextModule.__init__: not listening, no callback, no thread.
\* stt.worker is the sequence of the worker threads started so far, each by
\* its position in _continuous_listen_worker: "test" at the while condition,
\* "listen" inside the loop body, "done" when the thread has ended.  A Thread
\* object is the index of its worker, None is 0.  stt.looping is the set of
\* workers that found the while condition true since the last start.
NewSpeechToText ==
    [is_listening |-> FALSE, callback |-> "None", listening_thread |-> 0,
     worker |-> <<>>, looping |-> {}]

NoCall == [op |-> "load", result |-> "None", save |-> "none"]

\* create_event: no check of the arguments or of the id; append, save, return the id.
CreateEvent(title, start_time, end_time, now, event_id, outcome) ==
    /\ Len(events) < MaxEvents
    /\ LET evs == Append(events, NewEvent(event_id, title, start_time, end_time, now))
       IN /\ events' = evs
          /\ file' = SaveEvents(evs, file, outcome)
    /\ last' = [op |-> "create", result |-> event_id, save |-> outcome]
    /\ UNCHANGED <<pc, loc, stt>>

\* get_event called by the caller: the event found, here its id, or None.
GetEventCall(event_id) ==
    /\ LET i == GetEvent(events, event_id)
       IN last' = [op |-> "get", save |-> "none",
                   result |-> IF i = 0 THEN "None" ELSE events[i].id]
    /\ UNCHANGED <<events, file, pc, loc, stt>>

\* update_event
UpdateEvent(event_id, kw, outcome) ==
    LET i == GetEvent(events, event_id)
    IN IF i = 0
       THEN /\ last' = [op |-> "update", result |-> "False", save |-> "none"]
            /\ UNCHANGED <<events, file, pc, loc, stt>>
       ELSE LET evs == [events EXCEPT ![i] = ApplyKwargs(@, kw)]
            IN /\ events' = evs
               /\ file' = SaveEvents(evs, file, outcome)
               /\ last' = [op |-> "update", result |-> "True", save |-> outcome]
               /\ UNCHANGED <<pc, loc, stt>>

\* delete_event
DeleteEvent(event_id, outcome) ==
    LET i == GetEvent(events, event_id)
    IN IF i = 0
       THEN /\ last' = [op |-> "delete", result |-> "False", save |-> "none"]
            /\ UNCHANGED <<events, file, pc, loc, stt>>
       ELSE LET evs == Pop(events, i)
            IN /\ events' = evs
               /\ file' = SaveEvents(evs, file, outcome)
               /\ last' = [op |-> "delete", result |-> "True", save |-> outcome]
               /\ UNCHANGED <<pc, loc, stt>>

\* A new CalendarModule over the same file (the process is started again).
Restart ==
    /\ events' = LoadEvents(file)
    /\ last' = NoCall
    /\ UNCHANGED <<file, pc, loc, stt>>

----------------------------------------------------------------------------
(* The queries *)

\* datetime.date(): the day a datetime falls on.
DateOf(t) == t \div (24 * 60)

\* list.sort(key=lambda e: e.start_time): ascending and stable, so events with
\* one start_time keep the order they had. Insert puts e behind every event of
\* the sorted list s that does not start later.
RECURSIVE Insert(_, _)
Insert(s, e) ==
    IF s = <<>> THEN <<e>>
    ELSE IF s[Len(s)].start_time <= e.start_time
         THEN Append(s, e)
         ELSE Append(Insert(SubSeq(s, 1, Len(s) - 1), e), s[Len(s)])

RECURSIVE SortByStart(_)
SortByStart(evs) ==
    IF evs = <<>> THEN <<>>
    ELSE Insert(SortByStart(SubSeq(evs, 1, Len(evs) - 1)), evs[Len(evs)])

\* get_events_for_date
GetEventsForDate(evs, target_date) ==
    SortByStart(SelectSeq(evs, LAMBDA e : DateOf(e.start_time) = target_date))

\* get_upcoming_events, with datetime.now() = now
GetUpcomingEvents(evs, now, days) ==
    SortByStart(SelectSeq(evs, LAMBDA e :
        now <= e.start_time /\ e.start_time <= now + days * (24 * 60)))

\* get_events_needing_reminders, with datetime.now() = now: the events whose
\* reminder time is now or up to a minute ago, in the order of self.events
\* (the method does not sort).
GetEventsNeedingReminders(evs, now) ==
    SelectSeq(evs, LAMBDA event :
        LET reminder_time == event.start_time - event.reminder_minutes
        IN reminder_time <= now /\ now <= reminder_time + 1)

\* get_status, with datetime.now() = now: all that a caller can ask the module
\* about its state.
GetStatus(evs, now) ==
    LET upcoming_events == GetUpcomingEvents(evs, now, 7)
    IN [total_events |-> Len(evs),
        today_events |-> Len(GetEventsForDate(evs, DateOf(now))),
        upcoming_events |-> Len(upcoming_events),
        next_event |-> IF upcoming_events # <<>> THEN upcoming_events[1].title ELSE "None",
        data_file |-> "data/calendar_events.json"]

\* A wrong overlap test: an event that touches the range at an endpoint counts.
OverlapsOrTouches(start_time, end_time, event) ==
    start_time <= event.end_time /\ end_time >= event.start_time

\* A wrong overlap test: only an event that lies inside the range counts.
OverlapsWithin(start_time, end_time, event) ==
    start_time <= event.start_time /\ event.end_time <= end_time

\* get_event_conflicts: the overlap test of the loop
Overlaps(start_time, end_time, event) ==
    start_time < event.end_time /\ end_time > event.start_time

\* The truth value of a str in a condition: the empty string is false.
Truthy(str) == str # ""

\* get_event_conflicts: the loop over self.events. exclude_event_id is a set
\* of at most one string, empty for None.
RECURSIVE GetEventConflicts(_, _, _, _)
GetEventConflicts(evs, start_time, end_time, exclude_event_id) ==
    IF evs = <<>> THEN <<>>
    ELSE LET event == Head(evs)
             conflicts == GetEventConflicts(Tail(evs), start_time, end_time,
                                            exclude_event_id)
         IN IF \E x \in exclude_event_id : Truthy(x) /\ event.id = x
            THEN conflicts
            ELSE IF Overlaps(start_time, end_time, event)
                 THEN <<event>> \o conflicts
                 ELSE conflicts

\* get_free_time_slots: the work hours, 9 AM to 6 PM
WorkStartHour == 9
WorkEndHour == 18

\* datetime.combine(target_date, datetime.min.time().replace(hour=hour))
Combine(target_date, hour) == target_date * (24 * 60) + hour * 60

\* (later - earlier).seconds // 60: timedelta.seconds leaves the days out
SecondsDiv60(earlier, later) == (later - earlier) % (24 * 60)

Max(a, b) == IF a >= b THEN a ELSE b

\* A wrong move of current_time: to the end of the event, though it be earlier.
AdvanceToEnd(current_time, event) == event.end_time

\* get_free_time_slots: current_time = max(current_time, event.end_time)
Advance(current_time, event) == Max(current_time, event.end_time)

\* get_free_time_slots: the loop over the sorted events of the day, from
\* current_time on; free_slots and the current_time the loop ends with.
RECURSIVE FreeSlotsLoop(_, _, _)
FreeSlotsLoop(evs, current_time, duration_minutes) ==
    IF evs = <<>> THEN [free_slots |-> <<>>, current_time |-> current_time]
    ELSE LET event == Head(evs)
             slot == IF /\ event.start_time > current_time
                        /\ SecondsDiv60(current_time, event.start_time)
                              >= duration_minutes
                     THEN <<[start |-> current_time, end |-> event.start_time]>>
                     ELSE <<>>
             rest == FreeSlotsLoop(Tail(evs), Advance(current_time, event),
                                   duration_minutes)
         IN [free_slots |-> slot \o rest.free_slots,
             current_time |-> rest.current_time]

\* get_free_time_slots
GetFreeTimeSlots(evs, target_date, duration_minutes) ==
    LET day_events == SortByStart(GetEventsForDate(evs, target_date))
        work_start == Combine(target_date, WorkStartHour)
        work_end == Combine(target_date, WorkEndHour)
        loop == FreeSlotsLoop(day_events, work_start, duration_minutes)
    IN IF /\ loop.current_time < work_end
          /\ SecondsDiv60(loop.current_time, work_end) >= duration_minutes
       THEN Append(loop.free_slots, [start |-> loop.current_time, end |-> work_end])
       ELSE loop.free_slots

----------------------------------------------------------------------------
(* Dates: datetime.date with day 0 = date(2023, 1, 1), a Sunday *)

EpochYear == 2023

\* date(2023, 1, 1).weekday(); Monday is 0 and Sunday is 6
EpochWeekday == 6

IsLeap(year) == (year % 4 = 0 /\ year % 100 # 0) \/ year % 400 = 0

DaysInYear(year) == IF IsLeap(year) THEN 366 ELSE 365

DaysInMonth(year, month) ==
    IF month = 2 THEN (IF IsLeap(year) THEN 29 ELSE 28)
    ELSE IF month \in {4, 6, 9, 11} THEN 30 ELSE 31

RECURSIVE DaysBeforeMonth(_, _)
DaysBeforeMonth(year, month) ==
    IF month = 1 THEN 0
    ELSE DaysBeforeMonth(year, month - 1) + DaysInMonth(year, month - 1)

RECURSIVE DaysBeforeYear(_)
DaysBeforeYear(year) ==
    IF year = EpochYear THEN 0
    ELSE IF year > EpochYear
         THEN DaysBeforeYear(year - 1) + DaysInYear(year - 1)
         ELSE DaysBeforeYear(year + 1) - DaysInYear(year)

\* date(year, month, day) raises ValueError unless year, month and day are
\* in range.
ValidDate(year, month, day) ==
    /\ year \in 1..9999
    /\ month \in 1..12
    /\ day \in 1..DaysInMonth(year, month)

\* date(year, month, day)
Date(year, month, day) ==
    DaysBeforeYear(year) + DaysBeforeMonth(year, month) + day - 1

\* The years the dates of the model fall in.
CalendarYears == (EpochYear - 1)..(EpochYear + 2)

\* The year, month and day of every date of those years.
DateFields ==
    [d \in Date(EpochYear - 1, 1, 1)..Date(EpochYear + 2, 12, 31) |->
        LET year == CHOOSE y \in CalendarYears :
                        Date(y, 1, 1) <= d /\ d < Date(y, 1, 1) + DaysInYear(y)
            month == CHOOSE m \in 1..12 :
                        /\ Date(year, m, 1) <= d
                        /\ d < Date(year, m, 1) + DaysInMonth(year, m)
        IN [year |-> year, month |-> month, day |-> d - Date(year, month, 1) + 1]]

\* date.year, date.month, date.day
YearOf(d) == DateFields[d].year

MonthOf(d) == DateFields[d].month

DayOf(d) == DateFields[d].day

\* date.weekday(): Monday is 0 and Sunday is 6
Weekday(d) == (d + EpochWeekday) % 7

\* calendar.month_name[month]
MonthName(month) ==
    <<"January", "February", "March", "April", "May", "June", "July", "August",
      "September", "October", "November", "December">>[month]

----------------------------------------------------------------------------
(* The calendar grid *)

\* get_events_for_month
GetEventsForMonth(evs, year, month) ==
    SortByStart(SelectSeq(evs, LAMBDA e :
        /\ YearOf(DateOf(e.start_time)) = year
        /\ MonthOf(DateOf(e.start_time)) = month))

\* get_calendar_matrix: range(6) weeks of range(7) days
GridWeeks == 6
WeekDays == 7

\* A wrong conversion: the weekday is left Monday-based.
MondayBased(weekday) == weekday

\* get_calendar_matrix: (first_day.weekday() + 1) % 7, Sunday = 0 ... Saturday = 6
SundayBased(weekday) == (weekday + 1) % 7

\* A wrong test: the month of the date is not compared.
IsCurrentYear(current_date, year, month) == YearOf(current_date) = year

\* get_calendar_matrix: is_current_month of a cell
IsCurrentMonth(current_date, year, month) ==
    MonthOf(current_date) = month /\ YearOf(current_date) = year

\* A wrong test: the events of the previous month are never fetched.
NeverPrevMonth(start_date, year, month) == FALSE

\* get_calendar_matrix: the grid starts in the month before the requested one
NeedsPrevMonth(start_date, year, month) ==
    MonthOf(start_date) # month \/ YearOf(start_date) # year

\* get_calendar_matrix, with datetime.now() = now
GetCalendarMatrix(evs, year, month, now) ==
    LET first_day == Date(year, month, 1)
        first_day_weekday == SundayBased(Weekday(first_day))
        start_date == first_day - first_day_weekday
        current_events == GetEventsForMonth(evs, year, month)
        prev_events ==
            IF NeedsPrevMonth(start_date, year, month)
            THEN GetEventsForMonth(evs, YearOf(start_date), MonthOf(start_date))
            ELSE <<>>
        all_events == current_events \o prev_events
        EventsByDate(d) == SelectSeq(all_events, LAMBDA e : DateOf(e.start_time) = d)
        today == DateOf(now)
        Cell(current_date) ==
            [day |-> DayOf(current_date),
             date |-> current_date,
             is_current_month |-> IsCurrentMonth(current_date, year, month),
             is_today |-> current_date = today,
             events |-> EventsByDate(current_date),
             has_events |-> EventsByDate(current_date) # <<>>]
    IN [calendar_matrix |->
            [week_num \in 1..GridWeeks |->
                [day_num \in 1..WeekDays |->
                    Cell(start_date + (week_num - 1) * WeekDays + (day_num - 1))]],
        year |-> year,
        month |-> month,
        month_name |-> MonthName(month),
        events_count |-> Len(current_events),
        total_days_with_events |->
            Cardinality({DateOf(all_events[i].start_time) :
                i \in {k \in 1..Len(all_events) :
                    /\ YearOf(DateOf(all_events[k].start_time)) = year
                    /\ MonthOf(DateOf(all_events[k].start_time)) = month}})]

----------------------------------------------------------------------------
(* Spec: one caller *)

Threads == {1, 2}

\* update_event called with no keyword at all.
NoKwargs == [id |-> {}, title |-> {}, start_time |-> {}, end_time |-> {},
             created_at |-> {}, color |-> {}, to_dict |-> {}]

\* A thread between two calls: no call, no locals.
NoLocals ==
    [op |-> "none", event_id |-> "None", event |-> NewEvent("None", "", 0, 0, 0),
     kw |-> NoKwargs, i |-> 0, ref |-> 0, events_data |-> <<>>,
     popped |-> "None", unsaved |-> FALSE]

\* Events a correct run leaves in the file: a title, an interval, no id twice.
WellFormed(evs) ==
    /\ \A i \in 1..Len(evs) : evs[i].title # "" /\ evs[i].start_time <= evs[i].end_time
    /\ \A i, j \in 1..Len(evs) : i # j => evs[i].id # evs[j].id

EventValues ==
    {NewEvent(id, title, st, en, now) :
        id \in Ids, title \in Titles, st \in Times, en \in Times, now \in NowValues}

EventLists == UNION {[1..n -> EventValues] : n \in 0..MaxEvents}

\* The files a CalendarModule can be constructed over.
InitFiles ==
    {AbsentFile, PartialFile}
        \cup {JsonFile(EventsData(evs)) : evs \in {l \in EventLists : WellFormed(l)}}

Init ==
    /\ file \in InitFiles
    /\ events = LoadEvents(file)
    /\ last = NoCall
    /\ pc = [t \in Threads |-> "idle"]
    /\ loc = [t \in Threads |-> NoLocals]
    /\ stt = NewSpeechToText

Next ==
    \/ \E title \in Titles, st \in Times, en \in Times, now \in NowValues, id \in Ids :
            CreateEvent(title, st, en, now, id, "ok")
    \/ \E id \in Ids, kw \in Kwargs : UpdateEvent(id, kw, "ok")
    \/ \E id \in Ids : DeleteEvent(id, "ok")
    \/ \E id \in Ids : GetEventCall(id)
    \/ Restart

\* One caller, every _save_events call succeeds.
Spec == Init /\ [][Next]_vars

----------------------------------------------------------------------------
(* FailSpec: one caller, and _save_events may fail *)

\* The **kwargs of FailSpec's callers: new times only.
TimeKwargs == {kw \in Kwargs : kw.id = {} /\ kw.title = {}}

FailNext ==
    \/ \E st \in Times, en \in Times, now \in NowValues, id \in Ids,
          outcome \in SaveOutcomes :
            CreateEvent("Standup", st, en, now, id, outcome)
    \/ \E id \in Ids, kw \in TimeKwargs, outcome \in SaveOutcomes :
            UpdateEvent(id, kw, outcome)
    \/ \E id \in Ids, outcome \in SaveOutcomes : DeleteEvent(id, outcome)
    \/ Restart

FailSpec == Init /\ [][FailNext]_vars

----------------------------------------------------------------------------
(* UpdSpec: one caller whose updates supply id, created_at and a key that  *)
(* is no field of the event *)

\* The **kwargs of UpdSpec's callers.
FieldKwargs == [id : Opt(Ids), title : {{}}, start_time : {{}}, end_time : {{}},
                created_at : Opt(Times), color : Opt({"red"}), to_dict : {{}}]

UpdNext ==
    \/ \E st \in Times, en \in Times, now \in NowValues, id \in Ids :
            CreateEvent("Standup", st, en, now, id, "ok")
    \/ \E id \in Ids, kw \in FieldKwargs : UpdateEvent(id, kw, "ok")
    \/ \E id \in Ids : DeleteEvent(id, "ok")
    \/ Restart

UpdSpec == Init /\ [][UpdNext]_vars

----------------------------------------------------------------------------
(* AttrSpec: one caller whose updates supply fields and keys that are no   *)
(* fields of the event: color, which a CalendarEvent does not have, and    *)
(* to_dict, the name of one of its methods *)

AttrKwargs == [id : {{}}, title : Opt({"Standup"}), start_time : {{}},
               end_time : Opt({660}), created_at : {{}},
               color : Opt({"red"}), to_dict : Opt({"red"})]

AttrNext ==
    \/ \E id \in Ids, kw \in AttrKwargs : UpdateEvent(id, kw, "ok")
    \/ \E id \in Ids : DeleteEvent(id, "ok")
    \/ Restart

AttrSpec == Init /\ [][AttrNext]_vars

----------------------------------------------------------------------------
(* LoadSpec: a CalendarModule is constructed over a file that does not load *)

\* The records of such a file: events created at 08:20, as to_dict wrote them,
\* and the same records without the key end_time.
WrittenRecords ==
    {ToDict(NewEvent(id, "Standup", 600, 660, 500)) : id \in Ids}

DamagedRecords ==
    {[k \in (DOMAIN d) \ {"end_time"} |-> d[k]] : d \in WrittenRecords}

\* The file is cut off, or is a JSON list with at least one damaged record.
DamagedFile(f) ==
    \/ f.kind = "partial"
    \/ f.kind = "json" /\ \E i \in 1..Len(f.data) : ~ Parses(f.data[i])

LoadFiles ==
    {PartialFile}
        \cup {f \in {JsonFile(data) :
                      data \in UNION {[1..n -> WrittenRecords \cup DamagedRecords] :
                                         n \in 1..MaxEvents}} : DamagedFile(f)}

LoadInit ==
    /\ file \in LoadFiles
    /\ events = LoadEvents(file)
    /\ last = NoCall
    /\ pc = [t \in Threads |-> "idle"]
    /\ loc = [t \in Threads |-> NoLocals]
    /\ stt = NewSpeechToText

LoadNext ==
    \/ \E st \in Times, en \in Times, now \in NowValues, id \in Ids :
            CreateEvent("Standup", st, en, now, id, "ok")
    \/ \E id \in Ids, kw \in TimeKwargs : UpdateEvent(id, kw, "ok")
    \/ \E id \in Ids : DeleteEvent(id, "ok")
    \/ Restart

LoadSpec == LoadInit /\ [][LoadNext]_vars

----------------------------------------------------------------------------
(* RoundSpec: a collection is saved, and a new CalendarModule loads it *)

\* Datetimes of RoundSpec's events: day 0 at 10:05, day 1 at 10:45.
RoundTimes == {605, 24 * 60 + 645}

\* The optional arguments of create_event: left at their defaults, or all given.
RoundOptions ==
    {[description |-> "", location |-> "", attendees |-> <<>>,
      reminder_minutes |-> 15, is_all_day |-> FALSE, recurrence |-> "none"],
     [description |-> "daily sync", location |-> "Room 4",
      attendees |-> <<"ann@example.org", "bo@example.org">>,
      reminder_minutes |-> 0, is_all_day |-> TRUE, recurrence |-> "weekly"]}

\* CalendarEvent(...) as create_event constructs it from all its arguments.
NewEventWith(id, title, start_time, end_time, now, o) ==
    [NewEvent(id, title, start_time, end_time, now) EXCEPT
        !.description = o.description, !.location = o.location,
        !.attendees = o.attendees, !.reminder_minutes = o.reminder_minutes,
        !.is_all_day = o.is_all_day, !.recurrence = o.recurrence]

RoundEvents ==
    {NewEventWith(id, "Standup", st, en, 541, o) :
        id \in Ids, st \in RoundTimes, en \in RoundTimes, o \in RoundOptions}

RoundInit ==
    /\ events \in UNION {[1..n -> RoundEvents] : n \in 0..MaxEvents}
    /\ file = AbsentFile
    /\ last = NoCall
    /\ pc = [t \in Threads |-> "idle"]
    /\ loc = [t \in Threads |-> NoLocals]
    /\ stt = NewSpeechToText

\* _save_events, called on the collection as it is.
SaveCall ==
    /\ file' = SaveEvents(events, file, "ok")
    /\ last' = [op |-> "save", result |-> "None", save |-> "ok"]
    /\ UNCHANGED <<events, pc, loc, stt>>

RoundNext == SaveCall \/ Restart

RoundSpec == RoundInit /\ [][RoundNext]_vars

----------------------------------------------------------------------------
(* QuerySpec: the scheduling queries, called on a stored collection *)

\* The day the queries are about; the day before it is day 0.
QueryDay == 24 * 60

\* <<start_time, end_time>> of the stored events: 10:00-11:00, 11:00-12:00,
\* 10:30-11:30, 19:00-20:00, one from 10:00 of the day before to 10:00, and
\* one that ends before it starts (create_event stores it as it is).
QueryIntervals ==
    {<<QueryDay + 600, QueryDay + 660>>, <<QueryDay + 660, QueryDay + 720>>,
     <<QueryDay + 630, QueryDay + 690>>, <<QueryDay + 1140, QueryDay + 1200>>,
     <<600, QueryDay + 600>>, <<QueryDay + 720, QueryDay + 600>>}

QueryEvents ==
    {NewEvent(id, "Standup", iv[1], iv[2], 541) : id \in Ids, iv \in QueryIntervals}

\* The bounds of a queried range: it starts at 10:00, 10:30 or 11:30 and ends
\* at 11:00, 11:30 or 12:30 (one range is empty, one ends before it starts).
QueryStarts == {QueryDay + 600, QueryDay + 630, QueryDay + 690}
QueryEnds == {QueryDay + 660, QueryDay + 690, QueryDay + 750}

QueryInit ==
    /\ events \in UNION {[1..n -> QueryEvents] : n \in 0..MaxEvents}
    /\ file = JsonFile(EventsData(events))
    /\ last = NoCall
    /\ pc = [t \in Threads |-> "idle"]
    /\ loc = [t \in Threads |-> NoLocals]
    /\ stt = NewSpeechToText

\* A call of get_event_conflicts; last keeps its arguments and the list it
\* returned.
ConflictsCall(start_time, end_time, exclude_event_id) ==
    /\ last' = [op |-> "conflicts", result |-> "list", save |-> "none",
                args |-> [start_time |-> start_time, end_time |-> end_time,
                          exclude_event_id |-> exclude_event_id],
                value |-> GetEventConflicts(events, start_time, end_time,
                                            exclude_event_id)]
    /\ UNCHANGED <<events, file, pc, loc, stt>>

\* The dates free slots are asked for: the day before QueryDay, and QueryDay.
QueryDates == {0, 1}

\* The minimum durations asked for, in minutes.
QueryDurations == {30, 60, 90}

\* A call of get_free_time_slots; last keeps its arguments and the list it
\* returned.
FreeSlotsCall(target_date, duration_minutes) ==
    /\ last' = [op |-> "free_slots", result |-> "list", save |-> "none",
                args |-> [target_date |-> target_date,
                          duration_minutes |-> duration_minutes],
                value |-> GetFreeTimeSlots(events, target_date, duration_minutes)]
    /\ UNCHANGED <<events, file, pc, loc, stt>>

QueryNext ==
    \/ \E start_time \in QueryStarts, end_time \in QueryEnds,
          exclude_event_id \in Opt(Ids \cup {""}) :
           ConflictsCall(start_time, end_time, exclude_event_id)
    \/ \E target_date \in QueryDates, duration_minutes \in QueryDurations :
           FreeSlotsCall(target_date, duration_minutes)

QuerySpec == QueryInit /\ [][QueryNext]_vars

----------------------------------------------------------------------------
(* GridSpec: get_calendar_matrix, called on a stored collection *)

\* The years and months grids are asked for: a common year and a leap year,
\* every month of them, and the month numbers 0 and 13.
GridYears == {EpochYear, EpochYear + 1}
GridMonths == 0..13

\* The dates of the stored events: 31 December 2023, 15 January 2024 and
\* 3 February 2024, each event from 10:00 to 11:00.
GridDates == {Date(2023, 12, 31), Date(2024, 1, 15), Date(2024, 2, 3)}

GridEvents ==
    {NewEvent("0f3a9c1e", "Standup", d * (24 * 60) + 600, d * (24 * 60) + 660, 541) :
        d \in GridDates}

\* datetime.now() of the calls: 15 January 2024, 09:00
GridNow == Date(2024, 1, 15) * (24 * 60) + 540

GridInit ==
    /\ events \in UNION {[1..n -> GridEvents] : n \in 0..MaxEvents}
    /\ file = JsonFile(EventsData(events))
    /\ last = NoCall
    /\ pc = [t \in Threads |-> "idle"]
    /\ loc = [t \in Threads |-> NoLocals]
    /\ stt = NewSpeechToText

\* A wrong outcome: the ValueError is caught and the call returns None.
MatrixOutcomeSilent(year, month) ==
    IF ValidDate(year, month, 1) THEN "dict" ELSE "None"

\* How a call of get_calendar_matrix ends: first_day = date(year, month, 1)
\* raises ValueError for a month that is none, and nothing in the method
\* catches it; otherwise the method returns its dict.
MatrixOutcome(year, month) ==
    IF ValidDate(year, month, 1) THEN "dict" ELSE "ValueError"

\* A call of get_calendar_matrix; last keeps its arguments and the dict it
\* returned, if it returned.
MatrixCall(year, month) ==
    /\ last' = IF MatrixOutcome(year, month) = "dict"
               THEN [op |-> "matrix", result |-> "dict", save |-> "none",
                     args |-> [year |-> year, month |-> month],
                     value |-> GetCalendarMatrix(events, year, month, GridNow)]
               ELSE [op |-> "matrix", result |-> MatrixOutcome(year, month),
                     save |-> "none",
                     args |-> [year |-> year, month |-> month]]
    /\ UNCHANGED <<events, file, pc, loc, stt>>

GridNext == \E year \in GridYears, month \in GridMonths : MatrixCall(year, month)

GridSpec == GridInit /\ [][GridNext]_vars

----------------------------------------------------------------------------
(* AliasSpec: the caller writes to a record that get_event returned *)

\* The titles a caller writes into a returned record.
CallerTitles == Titles \cup {"Changed"}

\* The caller calls get_event(event_id) and assigns title to the title of what
\* it got. get_event returns the CalendarEvent object of self.events itself
\* ("return event"), not a copy, so the assignment is one to the stored event;
\* nothing is saved. On None the caller has nothing to assign to.
SetReturnedTitle(event_id, title) ==
    LET i == GetEvent(events, event_id)
    IN /\ i # 0
       /\ events' = [events EXCEPT ![i].title = title]
       /\ last' = [op |-> "set_returned", result |-> events[i].id, save |-> "none"]
       /\ UNCHANGED <<file, pc, loc, stt>>

AliasNext ==
    \/ \E id \in Ids : GetEventCall(id)
    \/ \E id \in Ids, title \in CallerTitles : SetReturnedTitle(id, title)
    \/ Restart

AliasSpec == Init /\ [][AliasNext]_vars

----------------------------------------------------------------------------
(* ReminderSpec: a caller polls get_events_needing_reminders once a minute *)

\* The stored events start at 10:15 or 10:16 and have reminder_minutes 15 or
\* 16, so their reminder times are 09:59, 10:00 and 10:01.
ReminderStarts == {615, 616}
ReminderMinutes == {15, 16}

ReminderEvents ==
    {[NewEvent(id, "Standup", st, st + 30, 541) EXCEPT !.reminder_minutes = rm] :
        id \in Ids, st \in ReminderStarts, rm \in ReminderMinutes}

\* datetime.now() at the first poll of a run: 09:58, 09:59 or 10:00.
PollStarts == {598, 599, 600}

ReminderInit ==
    /\ events \in UNION {[1..n -> ReminderEvents] : n \in 0..MaxEvents}
    /\ file = JsonFile(EventsData(events))
    /\ last = NoCall
    /\ pc = [t \in Threads |-> "idle"]
    /\ loc = [t \in Threads |-> NoLocals]
    /\ stt = NewSpeechToText

\* A call of get_events_needing_reminders at datetime.now() = now. The caller
\* polls one minute after its previous poll; last keeps now, the list returned
\* and, in polls, the lists all polls of the run returned.
PollCall(now) ==
    /\ IF last.op = "reminders"
       THEN now = last.now + 1 /\ Len(last.polls) < MaxPolls
       ELSE now \in PollStarts
    /\ LET value == GetEventsNeedingReminders(events, now)
       IN last' = [op |-> "reminders", result |-> "list", save |-> "none",
                   now |-> now, value |-> value,
                   polls |-> IF last.op = "reminders"
                             THEN Append(last.polls, value) ELSE <<value>>]
    /\ UNCHANGED <<events, file, pc, loc, stt>>

ReminderNext ==
    \E now \in 598..(600 + MaxPolls) : PollCall(now)

ReminderSpec == ReminderInit /\ [][ReminderNext]_vars

----------------------------------------------------------------------------
(* ConcSpec: two threads of the web server call into one CalendarModule.   *)
(* The module takes no lock, so a thread switch can fall between any two   *)
(* statements; a step here is one statement (one list operation, one loop  *)
(* iteration, one setattr, one file operation).                            *)

\* The events ConcSpec's callers create: a point event at 10:00.
ConcEvents == {NewEvent(id, "Standup", 600, 600, now) : id \in Ids, now \in NowValues}

\* The **kwargs ConcSpec's callers pass: move the event to 11:00.
ConcKwargs == {[NoKwargs EXCEPT !.start_time = {660}, !.end_time = {660}]}

ConcInit ==
    /\ \E evs \in {l \in UNION {[1..n -> ConcEvents] : n \in 0..MaxEvents} : WellFormed(l)} :
            file = JsonFile(EventsData(evs))
    /\ events = LoadEvents(file)
    /\ last = NoCall
    /\ pc = [t \in Threads |-> "idle"]
    /\ loc = [t \in Threads |-> NoLocals]
    /\ stt = NewSpeechToText

\* Thread t moves to `to` with its locals changed to l.
Goto(t, to, l) ==
    /\ pc' = [pc EXCEPT ![t] = to]
    /\ loc' = [loc EXCEPT ![t] = l]

\* create_event, lines 124-137: the id is drawn and the event constructed.
CallCreate(t, ev) ==
    /\ pc[t] = "idle"
    /\ Goto(t, "c_append", [NoLocals EXCEPT !.op = "create", !.event = ev])
    /\ UNCHANGED <<events, file, last, stt>>

\* create_event, line 139: self.events.append(event)
CAppend(t) ==
    /\ pc[t] = "c_append"
    /\ Len(events) < MaxEvents
    /\ events' = Append(events, loc[t].event)
    /\ Goto(t, "s_dump", loc[t])
    /\ UNCHANGED <<file, last, stt>>

\* update_event is entered; get_event's loop starts at the first element.
CallUpdate(t, event_id, kw) ==
    /\ pc[t] = "idle"
    /\ Goto(t, "u_find", [NoLocals EXCEPT !.op = "update", !.event_id = event_id,
                                           !.kw = kw, !.i = 1])
    /\ UNCHANGED <<events, file, last, stt>>

\* get_event, lines 155-158: one iteration of the loop over self.events. The
\* event found is held by reference: ref is where that object is in the list.
UFind(t) ==
    /\ pc[t] = "u_find"
    /\ LET l == loc[t]
       IN IF l.i > Len(events)
          THEN Goto(t, "idle", NoLocals)
          ELSE IF events[l.i].id = l.event_id
               THEN Goto(t, IF l.kw = NoKwargs THEN "s_dump" ELSE "u_set",
                         [l EXCEPT !.ref = l.i])
               ELSE Goto(t, "u_find", [l EXCEPT !.i = l.i + 1])
    /\ UNCHANGED <<events, file, last, stt>>

\* The keys of kw that are supplied.
SuppliedKeys(kw) == {k \in DOMAIN kw : kw[k] # {}}

\* update_event, lines 176-178: one setattr, of the key the caller's kwargs has
\* next. An event that another thread has popped meanwhile (ref = 0) is changed
\* all the same, but is in no list.
USet(t, key) ==
    /\ pc[t] = "u_set"
    /\ key \in SuppliedKeys(loc[t].kw)
    /\ LET l == loc[t]
           one == [NoKwargs EXCEPT ![key] = l.kw[key]]
           rest == [l.kw EXCEPT ![key] = {}]
       IN /\ events' = IF l.ref = 0 THEN events
                       ELSE [events EXCEPT ![l.ref] = ApplyKwargs(@, one)]
          /\ Goto(t, IF rest = NoKwargs THEN "s_dump" ELSE "u_set", [l EXCEPT !.kw = rest])
    /\ UNCHANGED <<file, last, stt>>

\* delete_event is entered; its loop starts at the first element.
CallDelete(t, event_id) ==
    /\ pc[t] = "idle"
    /\ Goto(t, "d_scan", [NoLocals EXCEPT !.op = "delete", !.event_id = event_id, !.i = 1])
    /\ UNCHANGED <<events, file, last, stt>>

\* delete_event, lines 194-195: one iteration of the loop, up to the comparison.
DScan(t) ==
    /\ pc[t] = "d_scan"
    /\ LET l == loc[t]
       IN IF l.i > Len(events)
          THEN Goto(t, "idle", NoLocals)
          ELSE IF events[l.i].id = l.event_id
               THEN Goto(t, "d_pop", l)
               ELSE Goto(t, "d_scan", [l EXCEPT !.i = l.i + 1])
    /\ UNCHANGED <<events, file, last, stt>>

\* Where the object at position r is after pop(i): 0 when it was the one popped.
RefAfterPop(r, i) == IF r = i THEN 0 ELSE IF r > i THEN r - 1 ELSE r

\* delete_event, line 196: self.events.pop(i), with the index the loop found.
\* pop raises IndexError when the list has become shorter than that.
DPop(t) ==
    /\ pc[t] = "d_pop"
    /\ LET l == loc[t]
       IN IF l.i > Len(events)
          THEN /\ Goto(t, "raised", l)
               /\ UNCHANGED events
          ELSE /\ events' = Pop(events, l.i)
               /\ pc' = [pc EXCEPT ![t] = "s_dump"]
               /\ loc' = [u \in Threads |->
                            IF u = t THEN [l EXCEPT !.popped = events[l.i].id]
                            ELSE [loc[u] EXCEPT !.ref = RefAfterPop(@, l.i)]]
    /\ UNCHANGED <<file, last, stt>>

\* A read, get_events_for_date, lines 212-216: the loop over self.events, taken
\* as one step. unsaved: the list it read is not the one the file holds.
CallRead(t) ==
    /\ pc[t] = "idle"
    /\ Goto(t, "r_done", [NoLocals EXCEPT !.op = "read",
                                          !.unsaved = (LoadEvents(file) # events)])
    /\ UNCHANGED <<events, file, last, stt>>

\* _save_events, line 92: events_data = [event.to_dict() for event in self.events]
SDump(t) ==
    /\ pc[t] = "s_dump"
    /\ Goto(t, "s_open", [loc[t] EXCEPT !.events_data = EventsData(events)])
    /\ UNCHANGED <<events, file, last, stt>>

\* _save_events, line 93: open(self.data_file, 'w') truncates the file.
SOpen(t) ==
    /\ pc[t] = "s_open"
    /\ file' = PartialFile
    /\ Goto(t, "s_write", loc[t])
    /\ UNCHANGED <<events, last, stt>>

\* What a file holds after this dump is written into it from offset 0. The
\* thread's own open has truncated the file, so a dump found there was written
\* by another thread since; the events of ConcSpec all serialize to texts of one
\* length, so a dump of more events is a longer text, and its tail stays behind
\* the shorter one written over it.
WriteOver(f, events_data) ==
    IF f.kind = "json" /\ Len(f.data) > Len(events_data)
    THEN PartialFile
    ELSE JsonFile(events_data)

\* _save_events, line 94 and the end of the with block: the dump is written and
\* the file closed.
SWrite(t) ==
    /\ pc[t] = "s_write"
    /\ file' = WriteOver(file, loc[t].events_data)
    /\ Goto(t, "idle", NoLocals)
    /\ UNCHANGED <<events, last, stt>>

\* The call returns to its caller, or its exception reaches the caller.
Return(t) ==
    /\ pc[t] \in {"r_done", "raised"}
    /\ Goto(t, "idle", NoLocals)
    /\ UNCHANGED <<events, file, last, stt>>

ConcNext ==
    \E t \in Threads :
        \/ \E ev \in ConcEvents : CallCreate(t, ev)
        \/ CAppend(t)
        \/ \E id \in Ids, kw \in ConcKwargs : CallUpdate(t, id, kw)
        \/ UFind(t)
        \/ \E key \in DOMAIN NoKwargs : USet(t, key)
        \/ \E id \in Ids : CallDelete(t, id)
        \/ DScan(t)
        \/ DPop(t)
        \/ CallRead(t)
        \/ SDump(t)
        \/ SOpen(t)
        \/ SWrite(t)
        \/ Return(t)

ConcSpec == ConcInit /\ [][ConcNext]_vars

----------------------------------------------------------------------------
(* ListenSpec: SpeechToTextModule's continuous listening *)

\* SpeechToTextModule.__init__ assigns no logger, so every self.logger call
\* raises AttributeError.
LoggerCall == "AttributeError"

\* The speech module alone: the calendar's state is never touched.
ListenInit ==
    /\ events = <<>>
    /\ file = AbsentFile
    /\ last = NoCall
    /\ pc = [t \in Threads |-> "idle"]
    /\ loc = [t \in Threads |-> NoLocals]
    /\ stt = NewSpeechToText

\* start_continuous_listening, lines 82-93: nothing while is_listening;
\* otherwise the callback and the flag are set and a new thread is started.
Start(s) ==
    IF s.is_listening THEN s
    ELSE [s EXCEPT !.callback = "callback",
                   !.is_listening = TRUE,
                   !.worker = Append(s.worker, "test"),
                   !.listening_thread = Len(s.worker) + 1,
                   !.looping = {}]

\* The call of start_continuous_listening; both paths end in a logger call.
StartContinuousListening ==
    /\ stt.is_listening \/ Len(stt.worker) < MaxWorkers
    /\ stt' = Start(stt)
    /\ last' = [op |-> "start", result |-> LoggerCall, save |-> "none"]
    /\ UNCHANGED <<events, file, pc, loc>>

\* join(timeout=2), line 104: it returns when thread t has ended, which a
\* worker does within the two seconds only by reaching the while condition;
\* or it returns at the timeout with the worker still inside listen
\* (timeout=1, phrase_time_limit=5) or recognize_google.
Join(s, t, in_time) ==
    IF in_time \/ s.worker[t] # "listen"
    THEN [s EXCEPT !.worker[t] = "done"]
    ELSE s

\* stop_continuous_listening, lines 98-104.
Stop(s, in_time) ==
    IF ~s.is_listening THEN s
    ELSE LET cleared == [s EXCEPT !.is_listening = FALSE]
         IN IF s.listening_thread # 0
            THEN Join(cleared, s.listening_thread, in_time)
            ELSE cleared

\* The call of stop_continuous_listening; both paths end in a logger call.
StopContinuousListening(in_time) ==
    /\ stt' = Stop(stt, in_time)
    /\ last' = [op |-> "stop", result |-> LoggerCall, save |-> "none"]
    /\ UNCHANGED <<events, file, pc, loc>>

\* _continuous_listen_worker, line 109: while self.is_listening.
WorkerTest(w) ==
    /\ stt.worker[w] = "test"
    /\ stt' = IF stt.is_listening
              THEN [stt EXCEPT !.worker[w] = "listen",
                               !.looping = @ \cup {w}]
              ELSE [stt EXCEPT !.worker[w] = "done"]
    /\ UNCHANGED <<events, file, last, pc, loc>>

\* What one pass of the loop body can do: recognise a text, hear nothing it
\* understands (WaitTimeoutError, UnknownValueError), or fail otherwise.
Heard == {"text", "silence", "error"}

\* _continuous_listen_worker, lines 110-131: listen and recognize_google;
\* a text goes to the callback; the handlers of lines 126-131 call the
\* logger, whose AttributeError ends the thread.
WorkerListen(w, heard) ==
    /\ stt.worker[w] = "listen"
    /\ stt' = [stt EXCEPT !.worker[w] = IF heard = "error" THEN "done" ELSE "test"]
    /\ last' = IF heard = "text" /\ stt.callback # "None"
               THEN [op |-> "callback", result |-> "None", save |-> "none", by |-> w]
               ELSE last
    /\ UNCHANGED <<events, file, pc, loc>>

ListenNext ==
    \/ StartContinuousListening
    \/ \E in_time \in BOOLEAN : StopContinuousListening(in_time)
    \/ \E w \in 1..Len(stt.worker) : WorkerTest(w)
    \/ \E w \in 1..Len(stt.worker), heard \in Heard : WorkerListen(w, heard)

ListenSpec == ListenInit /\ [][ListenNext]_vars

----------------------------------------------------------------------------
(* The claims *)

\* The file holds a complete dump, and that dump read back is the list in memory.
FileMirrorsMemory == file.kind = "json" /\ LoadEvents(file) = events

Invalid(title, start_time, end_time) == title = "" \/ start_time > end_time

\* C1: every stored event has start_time <= end_time, after loading and after
\* any sequence of create, update and delete calls.
C1_IntervalsOrdered ==
    \A i \in 1..Len(events) : events[i].start_time <= events[i].end_time

\* C2: any two distinct stored events have different ids, in every state the
\* store reaches by loading, create, update and delete; so no create has returned
\* an id that an event already had.
C2_IdsUnique ==
    \A i, j \in 1..Len(events) : i # j => events[i].id # events[j].id

\* C3: with one caller and every save succeeding, when create, update or delete
\* has returned after its save, the collection read back from the file is the
\* collection in memory, field for field; and an update or delete of an unknown
\* id changes neither the memory nor the file.
C3_FileMirrorsMemoryAfterSave ==
    /\ [](last.save = "ok" => FileMirrorsMemory)
    /\ [][(last'.op \in {"update", "delete"} /\ last'.result = "False")
            => (events' = events /\ file' = file)]_vars

\* A delete that found its event, saved, and left another event stored.
C3_Witness ==
    /\ last.op = "delete"
    /\ last.result = "True"
    /\ last.save = "ok"
    /\ Len(events) = 1

\* C4: when the save of a create, update or delete fails, the call reports the
\* failure to its caller (it returns neither an id nor True), and the memory is
\* back at what the file holds when the call returns.
C4_FailedSaveReportedAndRolledBack ==
    last.save \in {"open_failed", "write_failed"}
        => /\ last.result \notin Ids \cup {"True"}
           /\ events = LoadEvents(file)

\* C5 (its last part, which the whole claim implies): with calls running
\* concurrently, a delete(id) removes no event whose id is not the one given,
\* and no delete fails because another call changed the list meanwhile.
C5_DeleteRemovesOnlyItsIdAndNeverRaises ==
    \A t \in Threads :
        /\ pc[t] # "raised"
        /\ loc[t].popped # "None" => loc[t].popped = loc[t].event_id

\* C6: once every concurrently issued create, update and delete has returned,
\* the file holds exactly the serialization of the collection in memory.
C6_FileHoldsFinalCollection ==
    (\A t \in Threads : pc[t] = "idle") => FileMirrorsMemory

\* C7: a read that runs concurrently with a create, update or delete never
\* observes a collection that is not the durably saved one.
C7_ReadsSeeOnlySavedCollections ==
    \A t \in Threads : pc[t] = "r_done" => ~loc[t].unsaved

\* C8: at every instant, the middle of a save included, the file holds a
\* complete serialization; it is never empty or partially written.
C8_FileAlwaysComplete ==
    file.kind = "json"

\* C9: a create with an empty title or with start_time > end_time fails with
\* ValidationError, returns no id, and changes neither the memory nor the file.
C9_CreateRejectsInvalid ==
    [][\A title \in Titles, st \in Times, en \in Times, now \in NowValues, id \in Ids :
         (Invalid(title, st, en) /\ CreateEvent(title, st, en, now, id, "ok"))
            => /\ last'.result = "ValidationError"
               /\ events' = events
               /\ file' = file]_vars

\* C10: an update of a stored event whose merged result has start_time > end_time
\* fails with ValidationError and changes neither the stored event nor the file.
C10_UpdateRevalidatesInterval ==
    [][\A id \in Ids, kw \in Kwargs :
         (/\ GetEvent(events, id) # 0
          /\ LET merged == ApplyKwargs(events[GetEvent(events, id)], kw)
             IN merged.start_time > merged.end_time
          /\ UpdateEvent(id, kw, "ok"))
            => /\ last'.result = "ValidationError"
               /\ events' = events
               /\ file' = file]_vars

\* C11: an event's id and created_at never change after creation: no update,
\* one that supplies id or created_at included, alters either value of any
\* stored event.
C11_IdAndCreatedAtImmutable ==
    [][\A id \in Ids, kw \in FieldKwargs :
         UpdateEvent(id, kw, "ok")
            => /\ Len(events') = Len(events)
               /\ \A i \in 1..Len(events) :
                    /\ events'[i].id = events[i].id
                    /\ events'[i].created_at = events[i].created_at]_vars

\* C12: for an id that no stored event has, get returns not-found, update and
\* delete return False without raising, and the call changes neither the
\* collection in memory nor the file.
C12_UnknownIdChangesNothing ==
    [][\A id \in Ids :
         (\A i \in 1..Len(events) : events[i].id # id)
            => /\ GetEventCall(id)
                    => (last'.result = "None" /\ events' = events /\ file' = file)
               /\ last'.op = "update"
                    => \A kw \in Kwargs :
                         UpdateEvent(id, kw, "ok")
                            => (last'.result = "False" /\ events' = events /\ file' = file)
               /\ DeleteEvent(id, "ok")
                    => (last'.result = "False" /\ events' = events /\ file' = file)]_vars

\* An update of an id that none of the stored events has, returned False.
C12_Witness ==
    /\ last.op = "update"
    /\ last.result = "False"
    /\ Len(events) = MaxEvents

\* C13: when the backing file exists but cannot be parsed at construction, the
\* repository starts with an empty collection and its status shows the
\* corruption: the status is not the one of a repository started without a file.
C13_CorruptLoadShowsInStatus ==
    (last = NoCall /\ file.kind = "partial")
        => /\ events = <<>>
           /\ \A now \in NowValues :
                GetStatus(events, now) # GetStatus(LoadEvents(AbsentFile), now)

\* C14: round trip: a collection saved to the backing file and loaded into a
\* fresh repository comes back as the same events in the same order, every
\* field equal (id, title, description, start_time, end_time, location,
\* attendees, reminder_minutes, is_all_day, recurrence, created_at).
C14_SaveThenLoadIsIdentity ==
    [][(last.op = "save" /\ Restart) => events' = events]_vars

\* A fresh repository has loaded a saved collection of two different events,
\* one of them with attendees.
C14_Witness ==
    /\ last = NoCall
    /\ file.kind = "json"
    /\ Len(events) = MaxEvents
    /\ events[1] # events[2]
    /\ \E i \in 1..Len(events) : events[i].attendees # <<>>

\* C15: conflicts(start, end, exclude_id) returns exactly the stored events e
\* with e.id # exclude_id, e.start_time < end and e.end_time > start, each as
\* often as it is stored; an event that only touches the queried range at an
\* endpoint (e.end_time = start or e.start_time = end) is never returned.
C15_ConflictsAreExactlyTheOverlaps ==
    last.op = "conflicts"
        => LET a == last.args
               Conflicting(e) ==
                   /\ e.id \notin a.exclude_event_id
                   /\ e.start_time < a.end_time
                   /\ e.end_time > a.start_time
           IN /\ {last.value[j] : j \in 1..Len(last.value)}
                    = {events[i] : i \in {k \in 1..Len(events) : Conflicting(events[k])}}
              /\ Len(last.value)
                    = Cardinality({i \in 1..Len(events) : Conflicting(events[i])})
              /\ \A j \in 1..Len(last.value) :
                    /\ last.value[j].end_time # a.start_time
                    /\ last.value[j].start_time # a.end_time

\* A call with an exclude_id returned one of two stored events; the other one
\* has another id and starts where the queried range ends.
C15_Witness ==
    /\ last.op = "conflicts"
    /\ last.args.exclude_event_id \in {{id} : id \in Ids}
    /\ Len(events) = MaxEvents
    /\ Len(last.value) = 1
    /\ \E i \in 1..Len(events) :
          /\ events[i].id \notin last.args.exclude_event_id
          /\ events[i].start_time = last.args.end_time
          /\ events[i].start_time < events[i].end_time

\* The stored events are exactly A = 10:00-11:00 and B = 11:00-12:00 of one
\* day, and the last call was conflicts(10:30, end_time) with no exclude_id.
ExampleAB(end_time) ==
    /\ Len(events) = 2
    /\ {<<events[i].start_time, events[i].end_time>> : i \in 1..2}
          = {<<QueryDay + 600, QueryDay + 660>>, <<QueryDay + 660, QueryDay + 720>>}
    /\ last.op = "conflicts"
    /\ last.args = [start_time |-> QueryDay + 630, end_time |-> end_time,
                    exclude_event_id |-> {}]

\* The events a call returned.
Returned == {last.value[j] : j \in 1..Len(last.value)}

\* The stored events that start at start_time.
StartingAt(start_time) ==
    {events[i] : i \in {k \in 1..Len(events) : events[k].start_time = start_time}}

\* C16, as stated: with exactly the stored events A = [10:00,11:00) and
\* B = [11:00,12:00) on one day, conflicts(10:30,11:30) returns {A} only, and
\* conflicts(10:30,12:30) returns {A,B}.
C16_ExampleAsStated ==
    /\ ExampleAB(QueryDay + 690) => Returned = StartingAt(QueryDay + 600)
    /\ ExampleAB(QueryDay + 750) => Returned = {events[1], events[2]}

\* C16, amended: with exactly the stored events A = [10:00,11:00) and
\* B = [11:00,12:00) on one day, conflicts(10:30,11:30) returns {A,B}, as B
\* starts inside the range, and so does conflicts(10:30,12:30);
\* conflicts(10:30,11:00), whose range B only touches, returns {A} only.
C16_ExampleAmended ==
    /\ ExampleAB(QueryDay + 690) => Returned = {events[1], events[2]}
    /\ ExampleAB(QueryDay + 750) => Returned = {events[1], events[2]}
    /\ ExampleAB(QueryDay + 660) => Returned = StartingAt(QueryDay + 600)

\* conflicts(10:30,11:30) was called on A and B, and returned two events.
C16_Witness ==
    ExampleAB(QueryDay + 690) /\ Len(last.value) = 2

\* The events of the day of the last free_slots call, sorted by start.
DayEvents == SortByStart(GetEventsForDate(events, last.args.target_date))

\* The cursor of the walk before event k of the day (after the last one for
\* k = Len(DayEvents) + 1): 09:00, or the latest end of an earlier event if
\* that is later.
Cursor(k) ==
    LET ends == {DayEvents[j].end_time : j \in 1..(k - 1)}
                  \cup {last.args.target_date * 1440 + 9 * 60}
    IN CHOOSE t \in ends : \A u \in ends : u <= t

\* The gaps of the walk, in order: before each event of the day, then up to
\* 18:00.
Gaps ==
    [k \in 1..(Len(DayEvents) + 1) |->
        [start |-> Cursor(k),
         end |-> IF k <= Len(DayEvents) THEN DayEvents[k].start_time
                 ELSE last.args.target_date * 1440 + 18 * 60]]

\* The last call was free_slots(QueryDay, m), and the one stored event of that
\* day is 10:00-11:00.
ExampleOneEvent(m) ==
    /\ last.op = "free_slots"
    /\ last.args = [target_date |-> 1, duration_minutes |-> m]
    /\ Len(DayEvents) = 1
    /\ DayEvents[1].start_time = 1440 + 10 * 60
    /\ DayEvents[1].end_time = 1440 + 11 * 60

\* C17: free_slots(date, m) returns exactly the result of the cursor walk over
\* the day's events sorted by start: from 09:00, the gap from the cursor to an
\* event's start is emitted when it is at least m minutes long, the cursor
\* becomes max(cursor, event.end) and so never moves backward, and the gap
\* from the cursor to 18:00 is emitted last when it is at least m minutes
\* long. For one event 10:00-11:00 that is (09:00,10:00), (11:00,18:00) with
\* m = 30 and only (11:00,18:00) with m = 90.
C17_FreeSlotsAreTheCursorWalk ==
    /\ last.op = "free_slots"
         => /\ last.value
                 = SelectSeq(Gaps, LAMBDA g :
                       g.end - g.start >= last.args.duration_minutes)
            /\ \A k \in 1..Len(DayEvents) : Cursor(k) <= Cursor(k + 1)
    /\ ExampleOneEvent(30)
         => last.value = <<[start |-> 1440 + 540, end |-> 1440 + 600],
                           [start |-> 1440 + 660, end |-> 1440 + 1080]>>
    /\ ExampleOneEvent(90)
         => last.value = <<[start |-> 1440 + 660, end |-> 1440 + 1080]>>

\* free_slots was called for a day with two events of which the later one
\* ends before the earlier one does, and a slot after them was returned.
C17_Witness ==
    /\ last.op = "free_slots"
    /\ Len(DayEvents) = 2
    /\ DayEvents[2].end_time < DayEvents[1].end_time
    /\ DayEvents[1].start_time < DayEvents[1].end_time
    /\ Len(last.value) = 2

\* C18: every slot free_slots returns lies within the working hours of the
\* requested date: 09:00 <= slot.start < slot.end <= 18:00.
C18_SlotsWithinWorkHours ==
    last.op = "free_slots"
        => \A j \in 1..Len(last.value) :
             /\ last.args.target_date * 1440 + 9 * 60 <= last.value[j].start
             /\ last.value[j].start < last.value[j].end
             /\ last.value[j].end <= last.args.target_date * 1440 + 18 * 60

\* C19: no slot free_slots returns overlaps a stored event, whatever the day
\* the event starts on.
C19_SlotsHoldNoEvent ==
    last.op = "free_slots"
        => \A j \in 1..Len(last.value), i \in 1..Len(events) :
             ~ (/\ events[i].start_time < last.value[j].end
                /\ events[i].end_time > last.value[j].start)

\* Cell k (0..41) of the grid the last call returned, row by row.
GridCell(k) == last.value.calendar_matrix[(k \div 7) + 1][(k % 7) + 1]

\* C20: for every valid (year, month), the calendar grid has exactly 6 rows of
\* 7 cells (42 cells); their dates are 42 consecutive days, the first of them
\* the Sunday on or before the 1st of the requested month.
C20_GridIsSixWeeksFromSunday ==
    (last.op = "matrix" /\ last.args.month \in 1..12)
        => LET matrix == last.value.calendar_matrix
               first == Date(last.args.year, last.args.month, 1)
           IN /\ DOMAIN matrix = 1..6
              /\ \A w \in 1..6 : DOMAIN matrix[w] = 1..7
              /\ \A k \in 0..41 : GridCell(k).date = GridCell(0).date + k
              /\ Weekday(GridCell(0).date) = 6
              /\ GridCell(0).date <= first
              /\ first < GridCell(0).date + 7

\* The grid of March 2024 was returned: its first cell is Sunday 25 February
\* 2024 and its last one Saturday 6 April 2024.
C20_Witness ==
    /\ last.op = "matrix"
    /\ last.args = [year |-> 2024, month |-> 3]
    /\ GridCell(0).date = Date(2024, 2, 25)
    /\ GridCell(0).day = 25
    /\ ~ GridCell(0).is_current_month
    /\ GridCell(41).day = 6
    /\ GridCell(5).day = 1 /\ GridCell(5).is_current_month

\* How often e occurs in the sequence seq.
Count(seq, e) == Cardinality({i \in DOMAIN seq : seq[i] = e})

\* The month of date d, counted in months: the requested month of the last
\* call has the number RequestedMonth.
MonthNumber(d) == YearOf(d) * 12 + MonthOf(d)

RequestedMonth == last.args.year * 12 + last.args.month

\* C21: every event listed in a grid cell starts on that cell's date; a cell
\* dated in the requested month or in the previous month lists all stored
\* events that start on its date (each as often as it is stored), and a cell
\* dated in the following month lists no events.
C21_CellsListTheEventsOfTheirDate ==
    (last.op = "matrix" /\ last.args.month \in 1..12)
        => \A k \in 0..41 :
             LET cell == GridCell(k)
                 stored == SelectSeq(events, LAMBDA e : DateOf(e.start_time) = cell.date)
             IN /\ \A j \in 1..Len(cell.events) :
                      DateOf(cell.events[j].start_time) = cell.date
                /\ MonthNumber(cell.date) \in {RequestedMonth - 1, RequestedMonth}
                      => /\ Len(cell.events) = Len(stored)
                         /\ \A i \in 1..Len(stored) :
                              Count(cell.events, stored[i]) = Count(stored, stored[i])
                         /\ cell.has_events = (stored # <<>>)
                /\ MonthNumber(cell.date) = RequestedMonth + 1
                      => cell.events = <<>> /\ ~ cell.has_events

\* The grid of January 2024 was returned for a store with an event on
\* 31 December 2023 and one on 3 February 2024: the first cell lists the
\* former, the cell of 3 February lists nothing.
C21_Witness ==
    /\ last.op = "matrix"
    /\ last.args = [year |-> 2024, month |-> 1]
    /\ GridCell(0).date = Date(2023, 12, 31)
    /\ Len(GridCell(0).events) = 1
    /\ \E i \in 1..Len(events) : DateOf(events[i].start_time) = Date(2024, 2, 3)
    /\ \E k \in 0..41 :
          GridCell(k).date = Date(2024, 2, 3) /\ GridCell(k).events = <<>>

\* C22: building the calendar grid for a month value outside 1..12 fails with
\* an error for the malformed value (in Python, ValueError) and returns no
\* grid.
C22_InvalidMonthFails ==
    (last.op = "matrix" /\ last.args.month \notin 1..12)
        => /\ last.result = "ValueError"
           /\ "value" \notin DOMAIN last

\* get_calendar_matrix was called with month 13 on a store with events.
C22_Witness ==
    /\ last.op = "matrix"
    /\ last.args.month = 13
    /\ last.result = "ValueError"
    /\ events # <<>>

\* C23: every Query Engine operation returns its events in ascending
\* start_time order, whatever the order in which they are stored; here for
\* due_reminders (get_events_needing_reminders), the one of the six
\* operations that does not sort its result.
C23_QueriesReturnAscendingStarts ==
    last.op = "reminders"
        => \A j \in 1..(Len(last.value) - 1) :
             last.value[j].start_time <= last.value[j + 1].start_time

\* C24: for a caller that polls due_reminders at instants one minute apart,
\* every stored event whose reminder time (start_time minus reminder_minutes)
\* falls within the polled span is returned by exactly one poll.
C24_ReminderReturnedByExactlyOnePoll ==
    last.op = "reminders"
        => \A i \in 1..Len(events) :
             LET reminder_time == events[i].start_time - events[i].reminder_minutes
                 first_poll == last.now - (Len(last.polls) - 1)
                 returning == {k \in 1..Len(last.polls) :
                                 \E j \in 1..Len(last.polls[k]) :
                                     last.polls[k][j] = events[i]}
             IN (first_poll <= reminder_time /\ reminder_time <= last.now)
                   => Cardinality(returning) = 1

\* C25: on an empty store, after create of an event on date d, events_on(d)
\* returns exactly that event; after update shifts the start and end of the one
\* stored event to other times on d, events_on(d) returns it with the new
\* times; after delete of its id, get(id) returns not-found and events_on(d)
\* returns the empty list.
C25_CreateUpdateDeleteSequence ==
    [][/\ \A title \in Titles, st \in Times, en \in Times, now \in NowValues,
             id \in Ids :
            (events = <<>> /\ CreateEvent(title, st, en, now, id, "ok"))
               => /\ last'.result = id
                  /\ GetEventsForDate(events', DateOf(st))
                        = <<NewEvent(id, title, st, en, now)>>
       /\ \A id \in Ids, st \in Times, en \in Times :
            (/\ Len(events) = 1
             /\ events[1].id = id
             /\ DateOf(st) = DateOf(events[1].start_time)
             /\ UpdateEvent(id, [NoKwargs EXCEPT !.start_time = {st},
                                                 !.end_time = {en}], "ok"))
               => /\ last'.result = "True"
                  /\ GetEventsForDate(events', DateOf(st))
                        = <<[events[1] EXCEPT !.start_time = st, !.end_time = en]>>
       /\ \A id \in Ids :
            (Len(events) = 1 /\ events[1].id = id /\ DeleteEvent(id, "ok"))
               => /\ last'.result = "True"
                  /\ GetEvent(events', id) = 0
                  /\ GetEventsForDate(events', DateOf(events[1].start_time)) = <<>>]_vars

\* The one stored event was deleted: the store is empty, and so is the list
\* the file holds.
C25_Witness ==
    /\ last.op = "delete"
    /\ last.result = "True"
    /\ events = <<>>
    /\ file = JsonFile(<<>>)

\* C26: records handed out by get and by the query operations are copies or
\* read-only snapshots: changing a field of a returned record changes neither
\* the repository's stored event nor what a later get or query returns.
C26_ReturnedRecordsAreCopies ==
    [][\A id \in Ids, title \in CallerTitles :
         SetReturnedTitle(id, title)
            => /\ events' = events
               /\ \A d \in {DateOf(t) : t \in Times} :
                    GetEventsForDate(events', d) = GetEventsForDate(events, d)]_vars

\* The fields of an event record.
EventFields == DOMAIN NewEvent("0f3a9c1e", "Standup", 600, 660, 540)

\* C27: update(id, fields) on a known id changes exactly the supplied fields of
\* that one event: its other fields, the number of stored events and every
\* field of every other event are unchanged, and supplied keys that are not
\* event fields are ignored (they give the event no attribute).
C27_UpdateChangesOnlySuppliedFields ==
    [][\A id \in Ids, kw \in AttrKwargs :
         (GetEvent(events, id) # 0 /\ UpdateEvent(id, kw, "ok"))
            => LET i == GetEvent(events, id)
               IN /\ Len(events') = Len(events)
                  /\ \A j \in 1..Len(events) : j # i => events'[j] = events[j]
                  /\ DOMAIN events'[i] = DOMAIN events[i]
                  /\ \A f \in EventFields :
                       events'[i][f] = IF f \in DOMAIN kw /\ kw[f] # {}
                                       THEN Supplied(kw[f]) ELSE events[i][f]]_vars

\* C28: loading is all-or-nothing and not recoverable: if the backing file or
\* any single record in it fails to parse, the repository starts with zero
\* events (and has zero events as long as the file is as it was), and the next
\* create, update or delete that saves overwrites the file with the new
\* collection alone, so no record that was in the file before is in it after.
C28_FailedLoadLosesTheFile ==
    [][DamagedFile(file)
         => /\ events = <<>>
            /\ LoadEvents(file) = <<>>
            /\ file' # file
                 => /\ last'.op \in {"create", "update", "delete"}
                    /\ file' = JsonFile(EventsData(events'))
                    /\ Len(events') = 1
                    /\ \A i \in 1..Len(file.data), j \in 1..Len(file'.data) :
                         file'.data[j] # file.data[i]]_vars

\* A create has saved after a load that failed: the file now holds the
\* created event alone.
C28_Witness ==
    /\ last.op = "create"
    /\ Len(events) = 1
    /\ events[1].created_at = 540
    /\ file = JsonFile(EventsData(events))

\* C29: for every valid (year, month), each day of the requested month
\* appears in exactly one grid cell, and is_current_month is true on exactly
\* those cells; the 6 rows hold the whole month whatever weekday the 1st
\* falls on.
C29_GridHoldsTheWholeMonthOnce ==
    (last.op = "matrix" /\ last.args.month \in 1..12)
        => LET year == last.args.year
               month == last.args.month
               MonthDates == {Date(year, month, day) : day \in 1..DaysInMonth(year, month)}
           IN /\ \A d \in MonthDates :
                    Cardinality({k \in 0..41 : GridCell(k).date = d}) = 1
              /\ \A k \in 0..41 :
                    GridCell(k).is_current_month = (GridCell(k).date \in MonthDates)
              /\ \A day \in 1..DaysInMonth(year, month) :
                    \E k \in 0..41 :
                        GridCell(k).day = day /\ GridCell(k).is_current_month

\* The grid of July 2023, whose 1st is a Saturday: the 1st is the last cell
\* of the first row, the 31st is in the sixth row.
C29_Witness ==
    /\ last.op = "matrix"
    /\ last.args = [year |-> 2023, month |-> 7]
    /\ GridCell(6).day = 1 /\ GridCell(6).is_current_month
    /\ GridCell(36).day = 31 /\ GridCell(36).is_current_month
    /\ ~ GridCell(37).is_current_month

\* C30: at most one continuous-listening worker is looping at any time: never
\* have two workers both found the while condition true since the last start,
\* and never are two workers inside the loop body together.
C30_AtMostOneWorkerLoops ==
    /\ Cardinality(stt.looping) <= 1
    /\ Cardinality({w \in 1..Len(stt.worker) : stt.worker[w] = "listen"}) <= 1

====
